---------------------------- MODULE Spec2Model ----------------------------
(***************************************************************************)
(* Model of src/app.py: the URL validator, the format classifier, the     *)
(* error mapper and the /api/fetch handler of the video-downloader API.   *)
(*                                                                         *)
(* Representation of Python values.                                        *)
(*   - A URL or an exception message is a sequence of lexical tokens (each *)
(*     token a TLA+ string); '' is << >>.  URLs are "lexically normal": no *)
(*     two neighbouring tokens would fuse into one word at character       *)
(*     level.  Every other str is a TLA+ string.                           *)
(*   - None is NoneN (-1) in an integer-typed field and NoneS in a         *)
(*     string-typed field; a key that is missing from a dict is AbsentN    *)
(*     (-2) / AbsentS.  dict.get(k) maps both to None, dict.get(k, d)      *)
(*     maps a missing key to d and a null value to None.                   *)
(***************************************************************************)
EXTENDS Integers, Sequences, FiniteSets, TLC

VARIABLES
    vIn, vRes, vAgain,              \* validate_url: input, result, result of a second call
    formats, cat,                   \* categorize_formats: input list, outcome
    eIn, eRes,                      \* error mapping of extract_video_info: failure, response
    pc, req, url, processed_url,    \* fetch_video, one entry per request in flight
    raw, result, status, calls,     \* extractor outcome, response body, HTTP status, extract_info calls
    ydl_opts                        \* analyzer.ydl_opts, shared by all requests

vars == << vIn, vRes, vAgain, formats, cat, eIn, eRes,
           pc, req, url, processed_url, raw, result, status, calls, ydl_opts >>

urlVars  == << vIn, vRes, vAgain >>
catVars  == << formats, cat >>
errVars  == << eIn, eRes >>
httpVars == << pc, req, url, processed_url, raw, result, status, calls, ydl_opts >>

-----------------------------------------------------------------------------
(* Python None / missing dict key *)

NoneN   == 0 - 1
AbsentN == 0 - 2
NoneS   == "<None>"
AbsentS == "<absent>"

\* dict.get(k): a missing key and a null value both read as None
GetN(v) == IF v = AbsentN THEN NoneN ELSE v
GetS(v) == IF v = AbsentS THEN NoneS ELSE v
\* dict.get(k, d): only a missing key reads as the default
GetDefN(v, d) == IF v = AbsentN THEN d ELSE v
GetDefS(v, d) == IF v = AbsentS THEN d ELSE v
\* truthiness of an optional number / optional str
TruthyN(v) == v # NoneN /\ v # AbsentN /\ v # 0
TruthyS(v) == v # NoneS /\ v # AbsentS /\ v # ""

-----------------------------------------------------------------------------
(* Bounds of the model *)

MaxUrlLen   == 4    \* tokens in a URL string given to validate_url
MaxFormats  == 3    \* records in an enumerated list of raw formats
MaxRepeat   == 6    \* repetitions of a one- or two-record list (to pass the caps)
MaxMsgLen   == 2    \* tokens in an exception message
NumRequests == 2    \* requests handled concurrently

-----------------------------------------------------------------------------
(* validate_url  (src/app.py 37-61) *)

SP == " "
UrlTokens == { SP, "http://", "https://", "HTTP://", "example", "com", "v",
               "localhost", "1.2.3.4", ".", ":8080", "/", "?" }

StartsAlnum(t) == t \in { "http://", "https://", "HTTP://", "example", "com", "v",
                          "localhost", "1.2.3.4" }
EndsAlnum(t)   == t \in { "example", "com", "v", "localhost", "1.2.3.4", ":8080" }

\* no two neighbours fuse into one word, and the dotted quad stays a dotted quad
LexNormal(s) ==
    \A i \in 1..(Len(s) - 1) :
        /\ ~(EndsAlnum(s[i]) /\ StartsAlnum(s[i + 1]))
        /\ ~(s[i] = "1.2.3.4" /\ s[i + 1] = ".")
        /\ ~(s[i] = "." /\ s[i + 1] = "1.2.3.4")

\* the sequences over S of length at most n
SeqsUpTo(S, n) == UNION { [1..k -> S] : k \in 0..n }

\* the lexically normal strings of at most n tokens
UrlStrings(n) == { s \in SeqsUpTo(UrlTokens, n) : LexNormal(s) }

\* str.strip()
RECURSIVE LStrip(_)
LStrip(s) == IF s # << >> /\ Head(s) = SP THEN LStrip(Tail(s)) ELSE s
RECURSIVE RStrip(_)
RStrip(s) == IF s # << >> /\ s[Len(s)] = SP THEN RStrip(SubSeq(s, 1, Len(s) - 1)) ELSE s
Strip(s) == RStrip(LStrip(s))

\* url.startswith(('http://', 'https://')), case-sensitive
HasScheme(s) == s # << >> /\ Head(s) \in { "http://", "https://" }

\* r'^https?://' under re.IGNORECASE
IsSchemeTok(t) == t \in { "http://", "https://", "HTTP://" }
\* [A-Z0-9](?:[A-Z0-9-]{0,61}[A-Z0-9])?
IsLabel(t) == t \in { "example", "com", "v", "localhost" }
\* [A-Z]{2,6}
IsTld(t) == t = "com"

\* (?:label\.)+ tld \.?   over h
IsDomain(h) ==
    LET n == Len(h)
        m == IF n > 0 /\ h[n] = "." THEN n - 1 ELSE n   \* without the optional final dot
    IN  /\ m >= 3
        /\ m % 2 = 1
        /\ IsTld(h[m])
        /\ \A i \in 1..(m - 1) : IF i % 2 = 1 THEN IsLabel(h[i]) ELSE h[i] = "."

IsHost(h) == IsDomain(h) \/ h = << "localhost" >> \/ h = << "1.2.3.4" >>

\* (?::\d+)? (?:/?|[/?]\S+) $   over t
IsPathTail(t) ==
    \/ t = << >>
    \/ t = << "/" >>
    \/ /\ Len(t) >= 2
       /\ t[1] \in { "/", "?" }
       /\ \A i \in 2..Len(t) : t[i] # SP
IsPortTail(t) ==
    \/ IsPathTail(t)
    \/ t # << >> /\ Head(t) = ":8080" /\ IsPathTail(Tail(t))

url_pattern_match(s) ==
    /\ s # << >>
    /\ IsSchemeTok(Head(s))
    /\ LET r == Tail(s)
       IN  \E n \in 1..Len(r) : IsHost(SubSeq(r, 1, n)) /\ IsPortTail(SubSeq(r, n + 1, Len(r)))

NoneUrl == << NoneS >>
MSG_ENTER_URL  == << "please enter a valid URL" >>
MSG_BAD_FORMAT == << "URL format is incorrect" >>

\* NormalizeUrl without the strip of line 43
NormalizeNoStrip(s) == IF HasScheme(s) THEN s ELSE << "https://" >> \o s

\* line 43-47: strip, then prepend https:// when no scheme prefix
NormalizeUrl(s) ==
    LET t == Strip(s)
    IN  IF HasScheme(t) THEN t ELSE << "https://" >> \o t

validate_url(u) ==
    IF u = NoneUrl \/ u = << >>
    THEN [ok |-> FALSE, val |-> MSG_ENTER_URL]
    ELSE LET n == NormalizeUrl(u)
         IN  IF ~url_pattern_match(n)
             THEN [ok |-> FALSE, val |-> MSG_BAD_FORMAT]
             ELSE [ok |-> TRUE, val |-> n]

-----------------------------------------------------------------------------
(* format_filesize  (src/app.py 81-94) *)

NOT_SPECIFIED == "not specified"
KIB == 1024
Units == << "B", "KB", "MB", "GB" >>

RECURSIVE Pow(_, _)
Pow(b, e) == IF e = 0 THEN 1 ELSE b * Pow(b, e - 1)

\* f"{n/d:.1f}": one decimal, halves rounded to even
Fmt1(n, d) ==
    LET q == (10 * n) \div d
        r == (10 * n) % d
        t == IF 2 * r > d \/ (2 * r = d /\ q % 2 = 1) THEN q + 1 ELSE q
    IN  ToString(t \div 10) \o "." \o ToString(t % 10)

\* lines 88-92: the loop over the units; filesize / 1024^(k-1) < 1024.0 is decided
\* on the integer part.  The TB exit needs a size of 2^40 or more.
RECURSIVE UnitLoop(_, _)
UnitLoop(filesize, k) ==
    IF k > Len(Units)
    THEN Fmt1(filesize \div Pow(KIB, 2), Pow(KIB, 2)) \o " TB"
    ELSE IF filesize \div Pow(KIB, k - 1) < KIB
         THEN Fmt1(filesize, Pow(KIB, k - 1)) \o " " \o Units[k]
         ELSE UnitLoop(filesize, k + 1)

format_filesize(filesize) ==
    IF ~TruthyN(filesize) THEN NOT_SPECIFIED ELSE UnitLoop(filesize, 1)

-----------------------------------------------------------------------------
(* categorize_formats  (src/app.py 96-162) *)

STANDARD_QUALITY == "standard quality"
VIDEO_ONLY_SUFFIX == "p (video only)"
FPS_LIMIT == 30
CAP_COMBINED == 10
CAP_VIDEO_ONLY == 5
CAP_AUDIO_ONLY == 5

\* line 103: records the loop skips
SkipsRecord(fmt) == ~TruthyS(fmt.url)

\* has_video without the width test of line 123
has_video_by_codec(fmt) == GetS(fmt.vcodec) \notin { "none", NoneS }

\* lines 123-124
has_video(fmt) == GetS(fmt.vcodec) \notin { "none", NoneS } /\ TruthyN(fmt.width)
has_audio(fmt) == GetS(fmt.acodec) \notin { "none", NoneS }

\* lines 126, 135, 142: the if / elif / elif chain
GoesCombined(fmt)  == ~SkipsRecord(fmt) /\ has_video(fmt) /\ has_audio(fmt)
GoesVideoOnly(fmt) == ~SkipsRecord(fmt) /\ ~(has_video(fmt) /\ has_audio(fmt))
                      /\ has_video(fmt) /\ ~has_audio(fmt)
GoesAudioOnly(fmt) == ~SkipsRecord(fmt) /\ ~(has_video(fmt) /\ has_audio(fmt))
                      /\ ~(has_video(fmt) /\ ~has_audio(fmt))
                      /\ has_audio(fmt) /\ ~has_video(fmt)

\* lines 106-120: format_info before the branch relabels it
format_info(fmt) ==
    [ id             |-> GetDefS(fmt.format_id, ""),
      url            |-> GetDefS(fmt.url, ""),
      ext            |-> GetDefS(fmt.ext, "mp4"),
      quality        |-> GetDefS(fmt.format_note, STANDARD_QUALITY),
      filesize       |-> format_filesize(GetN(fmt.filesize)),
      filesize_bytes |-> GetDefN(fmt.filesize, 0),
      width          |-> GetN(fmt.width),
      height         |-> GetN(fmt.height),
      fps            |-> GetN(fmt.fps),
      vcodec         |-> GetDefS(fmt.vcodec, "none"),
      acodec         |-> GetDefS(fmt.acodec, "none"),
      abr            |-> GetN(fmt.abr),
      tbr            |-> GetN(fmt.tbr) ]

\* lines 128-132
CombinedInfo(fmt) ==
    IF TruthyN(fmt.height)
    THEN [ format_info(fmt) EXCEPT !.quality =
             IF TruthyN(fmt.fps) /\ fmt.fps > FPS_LIMIT
             THEN ToString(fmt.height) \o "p" \o ToString(fmt.fps)
             ELSE ToString(fmt.height) \o "p" ]
    ELSE format_info(fmt)

\* lines 137-139
VideoOnlyInfo(fmt) ==
    IF TruthyN(fmt.height)
    THEN [ format_info(fmt) EXCEPT !.quality = ToString(fmt.height) \o VIDEO_ONLY_SUFFIX ]
    ELSE format_info(fmt)

\* str.upper() of the extensions the branch can see
Upper(e) == CASE e = "mp3" -> "MP3" [] e = "m4a" -> "M4A" [] e = "webm" -> "WEBM" [] OTHER -> e

\* lines 144-150
AudioOnlyInfo(fmt) ==
    [ format_info(fmt) EXCEPT !.quality =
        IF TruthyN(fmt.abr) THEN ToString(fmt.abr) \o "kbps"
        ELSE IF GetS(fmt.ext) \in { "mp3", "m4a", "webm" } THEN Upper(fmt.ext)
        ELSE STANDARD_QUALITY ]

\* line 102: the positions of the loop over formats
Indices(fs) == [i \in 1..Len(fs) |-> i]

\* lines 154-156: x.get(k, 0) on a format_info, which always has key k, so the
\* default is never used and a None stored under k is what the key holds
KeyGet(v) == v
HeightKey(info) == << KeyGet(info.height), KeyGet(info.filesize_bytes) >>
AbrKey(info)    == << KeyGet(info.abr), KeyGet(info.filesize_bytes) >>

\* tuple comparison: the first differing components are compared with <, and
\* None < int (or int < None) is a TypeError
Incomparable(a, b) ==
    IF a[1] # b[1] THEN a[1] = NoneN \/ b[1] = NoneN
    ELSE a[2] # b[2] /\ (a[2] = NoneN \/ b[2] = NoneN)
KeyGt(a, b) == a[1] > b[1] \/ (a[1] = b[1] /\ a[2] > b[2])

\* list.sort raises when it compares two incomparable keys; every comparison
\* sort has to compare some such pair when one exists (the order of the two
\* groups is otherwise undetermined), and compares none when none exists
SortRaises(keys) == \E i, j \in 1..Len(keys) : Incomparable(keys[i], keys[j])

\* list.sort(key=..., reverse=True): descending, equal keys in original order.
\* keys[k] is the key of idxs[k].
SortDesc(idxs, keys) ==
    LET n == Len(idxs)
        rank(k) == Cardinality({ j \in 1..n : KeyGt(keys[j], keys[k]) })
                   + Cardinality({ j \in 1..(k - 1) : keys[j] = keys[k] })
    IN  [p \in 1..n |-> idxs[CHOOSE k \in 1..n : rank(k) = p - 1]]

Take(s, n) == SubSeq(s, 1, IF Len(s) < n THEN Len(s) ELSE n)

\* the NormalizedFormat records of the inputs at positions idxs
CombinedInfos(fs, idxs)  == [k \in 1..Len(idxs) |-> CombinedInfo(fs[idxs[k]])]
VideoOnlyInfos(fs, idxs) == [k \in 1..Len(idxs) |-> VideoOnlyInfo(fs[idxs[k]])]
AudioOnlyInfos(fs, idxs) == [k \in 1..Len(idxs) |-> AudioOnlyInfo(fs[idxs[k]])]

\* The lists are kept as positions in the input: pre is the three lists after
\* the loop (line 152), idx the three lists returned, and combined, video_only
\* and audio_only the returned lists themselves.  raised: a sort raised TypeError
\* and nothing is returned.
categorize_formats(fs) ==
    LET c  == SelectSeq(Indices(fs), LAMBDA i : GoesCombined(fs[i]))
        v  == SelectSeq(Indices(fs), LAMBDA i : GoesVideoOnly(fs[i]))
        a  == SelectSeq(Indices(fs), LAMBDA i : GoesAudioOnly(fs[i]))
        kc == [k \in 1..Len(c) |-> HeightKey(CombinedInfo(fs[c[k]]))]
        kv == [k \in 1..Len(v) |-> HeightKey(VideoOnlyInfo(fs[v[k]]))]
        ka == [k \in 1..Len(a) |-> AbrKey(AudioOnlyInfo(fs[a[k]]))]
        pre == [combined |-> c, video_only |-> v, audio_only |-> a]
        none == [combined |-> << >>, video_only |-> << >>, audio_only |-> << >>]
    IN  IF SortRaises(kc) \/ SortRaises(kv) \/ SortRaises(ka)
        THEN [ raised |-> TRUE, pre |-> pre, idx |-> none,
               combined |-> << >>, video_only |-> << >>, audio_only |-> << >> ]
        ELSE LET sc == Take(SortDesc(c, kc), CAP_COMBINED)
                 sv == Take(SortDesc(v, kv), CAP_VIDEO_ONLY)
                 sa == Take(SortDesc(a, ka), CAP_AUDIO_ONLY)
             IN  [ raised |-> FALSE, pre |-> pre,
                   idx |-> [combined |-> sc, video_only |-> sv, audio_only |-> sa],
                   combined   |-> CombinedInfos(fs, sc),
                   video_only |-> VideoOnlyInfos(fs, sv),
                   audio_only |-> AudioOnlyInfos(fs, sa) ]

-----------------------------------------------------------------------------
(* Error mapping of extract_video_info  (src/app.py 217-230, 253-262) *)

\* an exception message is a sequence of phrases
MsgTokens == { "Video unavailable", "video unavailable", "Private video",
               "NOT SUPPORTED", "not supported", "HTTP Error 404" }
Messages(n) == SeqsUpTo(MsgTokens, n)

\* needle in error_msg
Contains(msg, needle) == \E i \in 1..Len(msg) : msg[i] = needle
\* str.lower()
Lower(t) == CASE t = "Video unavailable" -> "video unavailable"
              [] t = "Private video" -> "private video"
              [] t = "NOT SUPPORTED" -> "not supported"
              [] t = "HTTP Error 404" -> "http error 404"
              [] OTHER -> t
LowerMsg(msg) == [i \in 1..Len(msg) |-> Lower(msg[i])]

MSG_UNAVAILABLE == << "the video is unavailable or protected" >>
MSG_PRIVATE     == << "the video is private and cannot be accessed" >>
MSG_UNSUPPORTED == << "the platform is not supported at present" >>
MSG_EXTRACTION  == << "error analysing the video: " >>
MSG_UNEXPECTED  == << "an unexpected error occurred, please try again" >>
MSG_MISSING_URL == << "please provide the video URL" >>

\* lines 253-262, without the timestamp
create_error_response(message, error_code) ==
    [ success |-> FALSE, error |-> [message |-> message, code |-> error_code] ]

\* on_download_error with the tests of lines 219 and 221 in the other order
private_video_first(error_msg) ==
    IF Contains(error_msg, "Private video")
    THEN create_error_response(MSG_PRIVATE, "PRIVATE_VIDEO")
    ELSE IF Contains(error_msg, "Video unavailable")
    THEN create_error_response(MSG_UNAVAILABLE, "VIDEO_UNAVAILABLE")
    ELSE IF Contains(LowerMsg(error_msg), "not supported")
    THEN create_error_response(MSG_UNSUPPORTED, "UNSUPPORTED_PLATFORM")
    ELSE create_error_response(MSG_EXTRACTION \o error_msg, "EXTRACTION_ERROR")

\* lines 217-226: except yt_dlp.DownloadError
on_download_error(error_msg) ==
    IF Contains(error_msg, "Video unavailable")
    THEN create_error_response(MSG_UNAVAILABLE, "VIDEO_UNAVAILABLE")
    ELSE IF Contains(error_msg, "Private video")
    THEN create_error_response(MSG_PRIVATE, "PRIVATE_VIDEO")
    ELSE IF Contains(LowerMsg(error_msg), "not supported")
    THEN create_error_response(MSG_UNSUPPORTED, "UNSUPPORTED_PLATFORM")
    ELSE create_error_response(MSG_EXTRACTION \o error_msg, "EXTRACTION_ERROR")

\* lines 228-230: except Exception
on_exception(error_msg) == create_error_response(MSG_UNEXPECTED, "UNEXPECTED_ERROR")

\* the two except clauses, by the type of what the try block raised
map_failure(f) ==
    IF f.kind = "DownloadError" THEN on_download_error(f.msg) ELSE on_exception(f.msg)

Failures(n) ==
    [kind : { "DownloadError" }, msg : Messages(n)]
    \cup [kind : { "Exception" }, msg : Messages(n) \ { << >> }]

-----------------------------------------------------------------------------
(* extract_video_info  (src/app.py 164-230) *)

TYPE_ERROR == << "'<' not supported between instances of 'NoneType' and 'int'" >>

\* lines 185-215: the result built from what ydl.extract_info returned; the
\* video_info block and the timestamp are left out
success_result(u, c) ==
    [ success |-> TRUE,
      formats |-> [ combined   |-> c.combined,
                    video_only |-> c.video_only,
                    audio_only |-> c.audio_only ],
      total_formats |-> [ combined   |-> Len(c.combined),
                          video_only |-> Len(c.video_only),
                          audio_only |-> Len(c.audio_only) ],
      original_url |-> u ]

\* o is what happened in the try block up to line 185: ydl.extract_info
\* returned info (kind "info", with its formats), or a yt_dlp.DownloadError or
\* another exception was raised (kind "DownloadError" / "Exception", with its
\* message).  A TypeError of the sorts in categorize_formats is raised inside
\* the try block too.
extract_video_info(u, o) ==
    IF o.kind = "info"
    THEN LET c == categorize_formats(o.formats)
         IN  IF c.raised THEN map_failure([kind |-> "Exception", msg |-> TYPE_ERROR])
             ELSE success_result(u, c)
    ELSE map_failure(o)

-----------------------------------------------------------------------------
(* fetch_video  (src/app.py 300-341) *)

Requests == 1..NumRequests

\* truthiness of an optional URL string
TruthyUrl(u) == u # NoneUrl /\ u # << >>
\* a or b
Or(a, b) == IF TruthyUrl(a) THEN a ELSE b

\* UrlOf with the query parameter as a third source of a POST
UrlOfWithQuery(q) ==
    IF q.method = "POST" THEN Or(q.json, Or(q.form, q.query)) ELSE q.query

\* lines 305-309.  q.json is data.get('url') of (request.get_json() or {}),
\* q.form is request.form.get('url'), q.query is request.args.get('url')
UrlOf(q) == IF q.method = "POST" THEN Or(q.json, q.form) ELSE q.query

\* fetch_stage without the is_valid test of line 324
fetch_stage_unvalidated(u) == IF ~TruthyUrl(u) THEN "missing" ELSE "extract"

\* lines 312-335: where the handler goes with url
fetch_stage(u) ==
    IF ~TruthyUrl(u) THEN "missing"
    ELSE IF ~validate_url(u).ok THEN "invalid"
    ELSE "extract"

\* StatusOf without the else branch of line 340
StatusAlways200(res) == 200

\* lines 338-341
StatusOf(res) == IF res.success THEN 200 ELSE 400

\* a handler that sets an option of the shared dict for its own request
OptsSetPerRequest(opts, u) == [opts EXCEPT !.format = "worst"]

\* line 167: YoutubeDL(self.ydl_opts) is given the dict; the handler writes no key
OptsAfterCall(opts, u) == opts

\* lines 24-35
YDL_OPTS ==
    [ quiet |-> TRUE, no_warnings |-> TRUE, extract_flat |-> FALSE, format |-> "best",
      writethumbnail |-> FALSE, writeinfojson |-> FALSE, extract_comments |-> FALSE,
      extract_auto_captions |-> FALSE, socket_timeout |-> 30, retries |-> 3 ]

-----------------------------------------------------------------------------
(* Idle values of the variables a specification does not use *)

Pending == [pending |-> TRUE]

UrlIdle  == vIn = << >> /\ vRes = Pending /\ vAgain = Pending
CatIdle  == formats = << >> /\ cat = Pending
ErrIdle  == eIn = Pending /\ eRes = Pending

-----------------------------------------------------------------------------
(* Inputs of categorize_formats *)

RawFormat(u, vc, ac, w, h, fps, abr, ext, note, fs) ==
    [ format_id |-> "f", url |-> u, ext |-> ext, format_note |-> note, filesize |-> fs,
      width |-> w, height |-> h, fps |-> fps, vcodec |-> vc, acodec |-> ac,
      abr |-> abr, tbr |-> AbsentN ]

CDN == "https://cdn/a"

\* every combination of the fields the loop reads, one record at a time
AllRecords(urls) ==
    { RawFormat(u, vc, ac, w, h, fps, abr, ext, note, fs) :
        u \in urls, vc \in { AbsentS, "none", "avc1" },
        ac \in { AbsentS, "none", "mp4a" }, w \in { AbsentN, 0, 1280 },
        h \in { AbsentN, NoneN, 720 }, fps \in { AbsentN, 30, 60 },
        abr \in { AbsentN, 128 }, ext \in { AbsentS, "m4a", "mp4" },
        note \in { AbsentS, NoneS, "", "hd" }, fs \in { AbsentN, NoneN, 1536 } }

\* records that differ in bucket and sort keys only
SortRecords ==
    { RawFormat(CDN, vc, ac, 1280, h, 30, h, "mp4", "hd", fs) :
        vc \in { "none", "avc1" }, ac \in { "none", "mp4a" },
        h \in { AbsentN, 360, 720 }, fs \in { AbsentN, NoneN, 5000000 } }
    \ { RawFormat(CDN, "none", "none", 1280, h, 30, h, "mp4", "hd", fs) :
        h \in { AbsentN, 360, 720 }, fs \in { AbsentN, NoneN, 5000000 } }

RECURSIVE Repeat(_, _)
Repeat(s, k) == IF k = 0 THEN << >> ELSE s \o Repeat(s, k - 1)

CatInputs(n, m) ==
    { << r >> : r \in AllRecords({ AbsentS, "", CDN }) }
    \cup SeqsUpTo(SortRecords, n)
    \cup { Repeat(s, k) : s \in SeqsUpTo(SortRecords, 2), k \in 1..m }

-----------------------------------------------------------------------------
(* Specification of validate_url as a function: an input is drawn, validated, *)
(* and an accepted result is validated again.                                 *)

HttpIdle ==
    /\ pc = [r \in 1..NumRequests |-> "new"]
    /\ req = [r \in 1..NumRequests |-> Pending]
    /\ url = [r \in 1..NumRequests |-> NoneUrl]
    /\ processed_url = [r \in 1..NumRequests |-> NoneUrl]
    /\ raw = [r \in 1..NumRequests |-> Pending]
    /\ result = [r \in 1..NumRequests |-> Pending]
    /\ status = [r \in 1..NumRequests |-> 0]
    /\ calls = [r \in 1..NumRequests |-> 0]

InitUrl == vIn \in UrlStrings(MaxUrlLen) /\ vRes = Pending /\ vAgain = Pending
           /\ CatIdle /\ ErrIdle /\ HttpIdle /\ ydl_opts = YDL_OPTS

Validate ==
    /\ vRes = Pending
    /\ vRes' = validate_url(vIn)
    /\ UNCHANGED << vIn, vAgain, catVars, errVars, httpVars >>

ValidateAgain ==
    /\ vRes # Pending /\ vRes.ok /\ vAgain = Pending
    /\ vAgain' = validate_url(vRes.val)
    /\ UNCHANGED << vIn, vRes, catVars, errVars, httpVars >>

NextUrl == Validate \/ ValidateAgain
SpecUrl == InitUrl /\ [][NextUrl]_vars

-----------------------------------------------------------------------------
(* Specification of categorize_formats as a function *)

InitCat == formats \in CatInputs(MaxFormats, MaxRepeat) /\ cat = Pending
           /\ UrlIdle /\ ErrIdle /\ HttpIdle /\ ydl_opts = YDL_OPTS

Categorize ==
    /\ cat = Pending
    /\ cat' = categorize_formats(formats)
    /\ UNCHANGED << formats, urlVars, errVars, httpVars >>

NextCat == Categorize
SpecCat == InitCat /\ [][NextCat]_vars

-----------------------------------------------------------------------------
(* Specification of the error mapping as a function of the failure *)

InitErr == eIn \in Failures(MaxMsgLen) /\ eRes = Pending
           /\ UrlIdle /\ CatIdle /\ HttpIdle /\ ydl_opts = YDL_OPTS

MapFailure ==
    /\ eRes = Pending
    /\ eRes' = map_failure(eIn)
    /\ UNCHANGED << eIn, urlVars, catVars, httpVars >>

NextErr == MapFailure
SpecErr == InitErr /\ [][NextErr]_vars

-----------------------------------------------------------------------------
(* Specification of the service: NumRequests requests arrive and are handled *)
(* concurrently, each by its own call of fetch_video; the calls interleave at *)
(* the call of the extractor.                                                  *)

GOOD_JSON  == << SP, "example", ".", "com", "/", "v" >>
BAD_FORM   == << "example", SP, "com" >>
GOOD_QUERY == << "http://", "localhost", ":8080" >>

\* the requests: each source either missing or carrying its URL
RequestInputs ==
    [ method : { "GET", "POST" }, json : { NoneUrl, GOOD_JSON },
      form : { NoneUrl, BAD_FORM }, query : { NoneUrl, GOOD_QUERY } ]

REC_720 == RawFormat(CDN, "avc1", "mp4a", 1280, 720, 60, AbsentN, "mp4", "hd", 5000000)
REC_NO_HEIGHT  == RawFormat(CDN, "avc1", "mp4a", 640, AbsentN, 30, AbsentN, "mp4", AbsentS, AbsentN)

\* what ydl.extract_info can do
Outcomes ==
    { [kind |-> "info", formats |-> << REC_720 >>],
      [kind |-> "info", formats |-> << REC_720, REC_NO_HEIGHT >>],
      [kind |-> "DownloadError", msg |-> << "Private video" >>],
      [kind |-> "DownloadError", msg |-> << "HTTP Error 404" >>],
      [kind |-> "Exception", msg |-> << "HTTP Error 404" >>] }

Init == HttpIdle /\ ydl_opts = YDL_OPTS /\ UrlIdle /\ CatIdle /\ ErrIdle

\* a request arrives
Receive(r) ==
    /\ pc[r] = "new"
    /\ \E q \in RequestInputs : req' = [req EXCEPT ![r] = q]
    /\ pc' = [pc EXCEPT ![r] = "received"]
    /\ UNCHANGED << url, processed_url, raw, result, status, calls, ydl_opts,
                    urlVars, catVars, errVars >>

\* lines 305-335, up to the call of ydl.extract_info (line 171)
Handle(r) ==
    /\ pc[r] = "received"
    /\ LET u == UrlOf(req[r])
           stage == fetch_stage(u)
       IN  /\ url' = [url EXCEPT ![r] = u]
           /\ CASE stage = "missing" ->
                     /\ result' = [result EXCEPT ![r] =
                                     create_error_response(MSG_MISSING_URL, "MISSING_URL")]
                     /\ status' = [status EXCEPT ![r] = 400]
                     /\ pc' = [pc EXCEPT ![r] = "done"]
                     /\ UNCHANGED << processed_url, calls, ydl_opts >>
                [] stage = "invalid" ->
                     /\ result' = [result EXCEPT ![r] =
                                     create_error_response(validate_url(u).val, "INVALID_URL")]
                     /\ status' = [status EXCEPT ![r] = 400]
                     /\ pc' = [pc EXCEPT ![r] = "done"]
                     /\ UNCHANGED << processed_url, calls, ydl_opts >>
                [] OTHER ->
                     /\ processed_url' = [processed_url EXCEPT ![r] = validate_url(u).val]
                     /\ calls' = [calls EXCEPT ![r] = calls[r] + 1]
                     /\ ydl_opts' = OptsAfterCall(ydl_opts, validate_url(u).val)
                     /\ pc' = [pc EXCEPT ![r] = "extracting"]
                     /\ UNCHANGED << result, status >>
    /\ UNCHANGED << req, raw, urlVars, catVars, errVars >>

\* ydl.extract_info returns or raises; lines 173-230 and 338-341
ExtractorReturns(r) ==
    /\ pc[r] = "extracting"
    /\ \E o \in Outcomes :
          LET res == extract_video_info(processed_url[r], o)
          IN  /\ raw' = [raw EXCEPT ![r] = o]
              /\ result' = [result EXCEPT ![r] = res]
              /\ status' = [status EXCEPT ![r] = StatusOf(res)]
    /\ pc' = [pc EXCEPT ![r] = "done"]
    /\ UNCHANGED << req, url, processed_url, calls, ydl_opts, urlVars, catVars, errVars >>

Next == \E r \in Requests : Receive(r) \/ Handle(r) \/ ExtractorReturns(r)
Spec == Init /\ [][Next]_vars

-----------------------------------------------------------------------------
(* Properties of validate_url (SpecUrl) *)

\* s[i..j] is s without its leading and trailing whitespace
IsTrim(s, i, j) ==
    /\ i <= j + 1
    /\ i <= j => (s[i] # SP /\ s[j] # SP)
    /\ \A k \in 1..Len(s) : (k < i \/ k > j) => s[k] = SP

\* C9: validate_url trims a non-empty input and, when the trimmed input lacks an
\* http:// or https:// prefix, prepends https:// before the grammar check; an
\* accepted call returns exactly that normalized string, which starts with
\* http:// or https://, and validating it again accepts it unchanged.
C9_NormalizedAndIdempotent ==
    /\ (vRes # Pending /\ vIn # << >>) =>
          \E i \in 1..(Len(vIn) + 1), j \in 0..Len(vIn) :
             /\ IsTrim(vIn, i, j)
             /\ LET t == SubSeq(vIn, i, j)
                    n == IF t # << >> /\ t[1] \in { "http://", "https://" }
                         THEN t ELSE << "https://" >> \o t
                IN  /\ vRes.ok = url_pattern_match(n)
                    /\ vRes.ok => /\ vRes.val = n
                                  /\ vRes.val[1] \in { "http://", "https://" }
    /\ vAgain # Pending => (vAgain.ok /\ vAgain.val = vRes.val)

\* an input with leading whitespace and no scheme was accepted and validated again
C9_Witness ==
    /\ vAgain # Pending
    /\ vIn[1] = SP /\ vIn[2] # SP /\ ~IsSchemeTok(vIn[2])
    /\ vRes.ok /\ vRes.val[1] = "https://" /\ Len(vRes.val) = Len(vIn)

-----------------------------------------------------------------------------
(* Properties of categorize_formats (SpecCat) *)

Done == cat # Pending
BucketNames == { "combined", "video_only", "audio_only" }
CapOf(b) == CASE b = "combined" -> CAP_COMBINED
              [] b = "video_only" -> CAP_VIDEO_ONLY
              [] OTHER -> CAP_AUDIO_ONLY
\* how often index i occurs in the list of bucket b before the sort
Occurs(i, b) == Cardinality({ k \in 1..Len(cat.pre[b]) : cat.pre[b][k] = i })
\* the NormalizedFormat of input i in bucket b
InfoIn(b, i) == CASE b = "combined" -> CombinedInfo(formats[i])
                  [] b = "video_only" -> VideoOnlyInfo(formats[i])
                  [] OTHER -> AudioOnlyInfo(formats[i])
\* the sort key of the claim: (height or abr, filesize_bytes), a missing one as 0
ZeroIfNone(v) == IF v = NoneN THEN 0 ELSE v
KeyZero(b, i) ==
    LET info == InfoIn(b, i)
    IN  << ZeroIfNone(IF b = "audio_only" THEN info.abr ELSE info.height),
           ZeroIfNone(info.filesize_bytes) >>

\* C2: every bucket is within its cap (10 / 5 / 5) and is the first entries of
\* the records assigned to it, ordered descending by (height or abr,
\* filesize_bytes) with a missing key as 0 and equal keys in input order.
C2_CappedAndSorted ==
    Done => \A b \in BucketNames :
        LET pre  == cat.pre[b]
            keys == [k \in 1..Len(pre) |-> KeyZero(b, pre[k])]
        IN  /\ Len(cat[b]) <= CapOf(b)
            /\ cat.idx[b] = Take(SortDesc(pre, keys), CapOf(b))
            /\ cat[b] = [k \in 1..Len(cat.idx[b]) |-> InfoIn(b, cat.idx[b][k])]

\* C3: categorize_formats has no error outcome, whatever fields are absent or null.
C3_NeverRaises == Done => ~cat.raised

\* the classification of the claim: a width that is present counts, whatever it is
ClaimedBucket(fmt) ==
    LET hv == GetS(fmt.vcodec) \notin { "none", NoneS } /\ GetN(fmt.width) # NoneN
        ha == GetS(fmt.acodec) \notin { "none", NoneS }
    IN  IF ~TruthyS(fmt.url) THEN "none"
        ELSE IF hv /\ ha THEN "combined"
        ELSE IF hv THEN "video_only"
        ELSE IF ha THEN "audio_only"
        ELSE "none"

\* the classification with a width of 0 counted as no width
TruthyWidthBucket(fmt) ==
    LET hv == GetS(fmt.vcodec) \notin { "none", NoneS } /\ GetN(fmt.width) \notin { NoneN, 0 }
        ha == GetS(fmt.acodec) \notin { "none", NoneS }
    IN  IF ~TruthyS(fmt.url) THEN "none"
        ELSE IF hv /\ ha THEN "combined"
        ELSE IF hv THEN "video_only"
        ELSE IF ha THEN "audio_only"
        ELSE "none"

\* C4 as stated: before truncation every record with a direct URL is in exactly
\* the bucket given by has_video (codec and width present) and has_audio, a
\* record with neither or without a URL is in none, and none is in two.
C4_PartitionByPresentWidth ==
    Done => \A i \in 1..Len(formats) : \A b \in BucketNames :
        Occurs(i, b) = IF ClaimedBucket(formats[i]) = b THEN 1 ELSE 0

\* C4 amended: the same, with has_video requiring a width that is present and
\* not 0 (and a direct URL that is not empty).
C4_PartitionByTruthyWidth ==
    Done => \A i \in 1..Len(formats) : \A b \in BucketNames :
        Occurs(i, b) = IF TruthyWidthBucket(formats[i]) = b THEN 1 ELSE 0

\* a record with both codecs and width 0 was classified, as audio only
C4_Witness ==
    /\ Done
    /\ \E i \in 1..Len(formats) :
          /\ TruthyS(formats[i].url) /\ formats[i].width = 0
          /\ formats[i].vcodec = "avc1" /\ formats[i].acodec = "mp4a"
          /\ Occurs(i, "audio_only") = 1 /\ Occurs(i, "combined") = 0

\* C5: every NormalizedFormat of a returned bucket has a quality label and a
\* filesize label that are non-empty strings.
C5_LabelsNonEmpty ==
    (Done /\ ~cat.raised) => \A b \in BucketNames : \A k \in 1..Len(cat[b]) :
        /\ cat[b][k].quality \notin { NoneS, "" }
        /\ cat[b][k].filesize \notin { NoneS, "" }

-----------------------------------------------------------------------------
(* Properties of the error mapping (SpecErr) *)

Code(res) == res.error.code
HasPhrase(msg, phrases) == \E i \in 1..Len(msg) : msg[i] \in phrases

\* C6: a DownloadError maps to the first of VIDEO_UNAVAILABLE ("Video
\* unavailable" in the message), PRIVATE_VIDEO ("Private video"),
\* UNSUPPORTED_PLATFORM ("not supported" in any case), else EXTRACTION_ERROR with
\* the raw text in the message; any other exception maps to UNEXPECTED_ERROR
\* with a fixed message that holds none of the raw text.
C6_FirstMatchWins ==
    eRes # Pending =>
        /\ ~eRes.success
        /\ IF eIn.kind = "DownloadError"
           THEN Code(eRes) =
                  IF HasPhrase(eIn.msg, { "Video unavailable" }) THEN "VIDEO_UNAVAILABLE"
                  ELSE IF HasPhrase(eIn.msg, { "Private video" }) THEN "PRIVATE_VIDEO"
                  ELSE IF HasPhrase(eIn.msg, { "not supported", "NOT SUPPORTED" })
                  THEN "UNSUPPORTED_PLATFORM"
                  ELSE "EXTRACTION_ERROR"
           ELSE /\ Code(eRes) = "UNEXPECTED_ERROR"
                /\ eRes.error.message = MSG_UNEXPECTED
                /\ \A i \in 1..Len(eIn.msg) : ~Contains(eRes.error.message, eIn.msg[i])
        /\ Code(eRes) = "EXTRACTION_ERROR" =>
              /\ Len(eRes.error.message) = Len(eIn.msg) + 1
              /\ SubSeq(eRes.error.message, 2, Len(eRes.error.message)) = eIn.msg

\* a DownloadError naming both "Private video" and "Video unavailable" was mapped
C6_Witness ==
    /\ eRes # Pending /\ eIn.kind = "DownloadError"
    /\ HasPhrase(eIn.msg, { "Private video" }) /\ HasPhrase(eIn.msg, { "Video unavailable" })
    /\ Code(eRes) = "VIDEO_UNAVAILABLE"

-----------------------------------------------------------------------------
(* Properties of the service (Spec) *)

Handled(r)  == pc[r] \in { "extracting", "done" }
Finished(r) == pc[r] = "done"
ErrorCode(r) == IF result[r].success THEN "none" ELSE Code(result[r])

\* C1: ydl.extract_info is called at most once per request and only with the
\* URL validate_url accepted for the request; a request whose url is missing or
\* is rejected is answered MISSING_URL / INVALID_URL without a call, and a
\* failed extraction is not tried again.
C1_ExtractOnceAfterValidation ==
    \A r \in Requests :
        /\ calls[r] <= 1
        /\ calls[r] = 1 =>
              /\ TruthyUrl(url[r]) /\ validate_url(url[r]).ok
              /\ processed_url[r] = validate_url(url[r]).val
        /\ (Finished(r) /\ ~TruthyUrl(url[r])) =>
              (calls[r] = 0 /\ ErrorCode(r) = "MISSING_URL")
        /\ (Finished(r) /\ TruthyUrl(url[r]) /\ ~validate_url(url[r]).ok) =>
              (calls[r] = 0 /\ ErrorCode(r) = "INVALID_URL")
        /\ (Finished(r) /\ raw[r] # Pending) => calls[r] = 1

\* one request was rejected by the validator, another failed in its one extraction
C1_Witness ==
    \E r1, r2 \in Requests :
        /\ Finished(r1) /\ ErrorCode(r1) = "INVALID_URL" /\ calls[r1] = 0
        /\ Finished(r2) /\ raw[r2] # Pending /\ raw[r2].kind = "DownloadError"
        /\ ~result[r2].success /\ calls[r2] = 1

Taxonomy == { "MISSING_URL", "INVALID_URL", "VIDEO_UNAVAILABLE", "PRIVATE_VIDEO",
              "UNSUPPORTED_PLATFORM", "EXTRACTION_ERROR", "UNEXPECTED_ERROR",
              "NOT_FOUND", "INTERNAL_ERROR" }
ExtractionCodes == { "VIDEO_UNAVAILABLE", "PRIVATE_VIDEO", "UNSUPPORTED_PLATFORM",
                     "EXTRACTION_ERROR", "UNEXPECTED_ERROR" }

FirstSupplied(sources) ==
    IF \E i \in 1..Len(sources) : TruthyUrl(sources[i])
    THEN sources[CHOOSE i \in 1..Len(sources) :
                    TruthyUrl(sources[i]) /\ \A j \in 1..(i - 1) : ~TruthyUrl(sources[j])]
    ELSE NoneUrl

\* the handler's url is the first supplied of the sources, and MISSING_URL is
\* the answer exactly when none of them supplies one
TakesUrlFrom(r, sources) ==
    /\ Handled(r) => (TruthyUrl(FirstSupplied(sources)) => url[r] = FirstSupplied(sources))
    /\ Finished(r) => (ErrorCode(r) = "MISSING_URL" <=> ~TruthyUrl(FirstSupplied(sources)))

Own(r) == << pc[r], req[r], url[r], processed_url[r], raw[r], result[r], status[r], calls[r] >>

=============================================================================
